---- MODULE Spec2Model ----
(***************************************************************************)
(* Model of streamlit_app.py: the scanner (scan), the report sender        *)
(* (send_report) and the script body that Streamlit reruns once per cycle  *)
(* (session state, automatic report with cooldown, manual report button). *)
(*                                                                         *)
(* Fixed point.  Python floats are modelled by integers:                   *)
(*   prices      in 1/10000 USD            (MIN_PRICE 0.03 -> 300)          *)
(*   percentages in 1/1000 of a percent    (EARLY_5M_MIN 0.2 -> 200)        *)
(*   ratios      in 1/1000                 (VOL_SURGE_X 2.2 -> 2200)        *)
(*   times       in seconds                (candle timestamps too)         *)
(* Values stored on a row are round(x, 2), i.e. integers in 1/100.         *)
(* A candle is the tuple <<ts, open, high, low, close, volume>>; Python's  *)
(* c[0]..c[5] are c[1]..c[6] here.                                         *)
(***************************************************************************)
EXTENDS Integers, Sequences, FiniteSets, TLC

\* ---------------------------------------------------------------- settings
MAX_PRICE == 10000000
MIN_PRICE == 300

MIN_5M_PCT == 1200
MIN_15M_PCT == 2200
NEAR_HIGH_PCT == 3000
VOL_SURGE_X == 2200

EARLY_NEAR_LOCAL_PCT_MAX == 5000
EARLY_5M_MIN == 200
EARLY_5M_MAX == 900
EARLY_15M_MAX == 1800
EARLY_VOL_X_MIN == 1500
EARLY_TOP == 15

BOTTOM_LOOKBACK_MIN == 90
BOTTOM_NEAR_LOW_PCT_MAX == 1200
BOTTOM_UP1M_MIN == 80
BOTTOM_5M_MIN == 150
BOTTOM_5M_MAX == 600
BOTTOM_VOL_X_MIN == 1200
BOTTOM_TOP == 10

REFRESH_SEC == 45
COOLDOWN_MIN == 10

\* scan: "len(ohlcv) < 60"
MIN_CANDLES == 60
\* too_old: max_age_min=6
MAX_AGE_MIN == 6
\* green3 >= (2/3), in 1/1000
GREEN_MIN == 666

\* float("nan"): a value no comparison accepts
NaN == -999999
\* Python None on a row
None == -999998

\* ---------------------------------------------------------------- float helpers
\* x == x in Python: false exactly for NaN
SelfEq(x) == x # NaN

\* a >= b and a <= b on floats: false when either side is NaN
Ge(a, b) == a # NaN /\ b # NaN /\ a >= b
Le(a, b) == a # NaN /\ b # NaN /\ a <= b

\* round(x, 2): 1/1000 -> 1/100 (no modelled value ends in an exact half)
Round2(x) == (x + 5) \div 10

Range(s) == {s[i] : i \in DOMAIN s}

\* the element of a one-element set; The({e(x) : x \in {v}}) is e(v) with v
\* evaluated once
The(S) == CHOOSE x \in S : TRUE

MaxOf(S) == CHOOSE m \in S : \A x \in S : x <= m
MinOf(S) == CHOOSE m \in S : \A x \in S : m <= x

\* s[-k:] of Python
LastK(s, k) == IF Len(s) <= k THEN s ELSE SubSeq(s, Len(s) - k + 1, Len(s))

\* s[-k] of Python, 1 <= k <= Len(s)
FromEnd(s, k) == s[Len(s) - k + 1]

RECURSIVE SumSeq(_)
SumSeq(s) == IF s = <<>> THEN 0 ELSE Head(s) + SumSeq(Tail(s))

\* ---------------------------------------------------------------- helpers
\* pct: ZeroDivisionError is caught and yields NaN
pct(curr, prev) ==
    IF prev = 0 THEN NaN ELSE ((curr - prev) * 100000) \div prev

\* the k-th smallest element of a non-empty sequence (1-based)
Kth(s, k) ==
    CHOOSE v \in Range(s) :
        /\ Cardinality({i \in DOMAIN s : s[i] < v}) < k
        /\ Cardinality({i \in DOMAIN s : s[i] <= v}) >= k

\* statistics.median, doubled so that the mean of the two middle values stays integral
median2(s) ==
    IF Len(s) % 2 = 1
    THEN 2 * Kth(s, (Len(s) + 1) \div 2)
    ELSE Kth(s, Len(s) \div 2) + Kth(s, Len(s) \div 2 + 1)

\* last_n_green_ratio(ohlcv, n), in 1/1000
last_n_green_ratio(ohlcv, n) ==
    IF Len(ohlcv) < n THEN 0
    ELSE (Cardinality({i \in DOMAIN LastK(ohlcv, n) : LastK(ohlcv, n)[i][5] >= LastK(ohlcv, n)[i][2]}) * 1000) \div n

\* is_strict_up(closes, n)
is_strict_up(closes, n) ==
    IF Len(closes) < n THEN FALSE
    ELSE \A i \in 2..n : LastK(closes, n)[i] > LastK(closes, n)[i - 1]

\* ---------------------------------------------------------------- market data
(***************************************************************************)
(* What the exchange answers for one symbol in one cycle.  fetch = "error" *)
(* makes fetch_ohlcv raise.  Otherwise the series has n one-minute candles,*)
(* the last one `age` seconds old; closes are `base` except the last six   *)
(* (tail), the close 15 bars before the last (c15) and the close 10 bars   *)
(* before the last (dip).  Every candle opens at the previous close; the   *)
(* last five candles trade `vol` each and the others 10.  tick is the      *)
(* ticker's last price, 0 when fetch_ticker raises.                        *)
(***************************************************************************)
Shape(n, age, c15, dip, tail, vol, tick) ==
    [fetch |-> "ok", n |-> n, age |-> age, base |-> 100000, c15 |-> c15,
     dip |-> dip, tail |-> tail, vol |-> vol, tick |-> tick]

T_Error  == [Shape(61, 30, 100000, 100000, <<100000, 100000, 100000, 100100, 100200, 100500>>, 20, 0)
                EXCEPT !.fetch = "error"]
T_Empty  == Shape(0, 30, 100000, 100000, <<100000, 100000, 100000, 100100, 100200, 100500>>, 20, 0)
T_Short  == Shape(59, 30, 100000, 100000, <<100000, 100000, 100000, 100100, 100200, 100500>>, 20, 0)
T_Stale  == Shape(61, 361, 100000, 100000, <<100000, 100000, 100000, 100100, 100200, 100500>>, 20, 0)
T_Flat   == Shape(61, 30, 100000, 100000, <<100000, 100000, 100000, 100000, 100000, 100000>>, 10, 0)
\* p5 = 0.5, p15 = 0.5, volx = 2.0: Early and Bottoming
T_EarlyA == Shape(61, 360, 100000, 100000, <<100000, 100000, 100000, 100100, 100200, 100500>>, 20, 100500)
\* p5 = 0.3, p15 = 1.0, volx = 1.8: Early and Bottoming
T_EarlyB == Shape(60, 30, 99307, 100000, <<100000, 100000, 100000, 100100, 100200, 100300>>, 18, 0)
\* p5 = 1.5, p15 = 2.5, volx = 3.0: Final
T_Final  == Shape(61, 30, 98000, 100000, <<99000, 99500, 100000, 100100, 100200, 100500>>, 30, 0)
\* closes[-6] = 0: p5 is NaN
T_NaN5   == Shape(61, 30, 100000, 100000, <<0, 100000, 100000, 100100, 100200, 100500>>, 20, 0)
\* closes[-16] = 0: p15 is NaN and the lookback window's low is 0
T_NaN15  == Shape(61, 30, 0, 100000, <<100000, 100000, 100000, 100100, 100200, 100500>>, 20, 0)

Shapes == {T_Error, T_Empty, T_Short, T_Stale, T_Flat, T_EarlyA, T_EarlyB, T_Final, T_NaN5, T_NaN15}

\* the close of the candle k bars before the last
CloseAt(t, k) ==
    IF k <= 5 THEN t.tail[6 - k]
    ELSE IF k = 15 THEN t.c15
    ELSE IF k = 10 THEN t.dip
    ELSE t.base

\* the candles the exchange returns for shape t at time now
Candles(t, now) ==
    [i \in 1..t.n |->
        LET k == t.n - i
            c == CloseAt(t, k)
            o == IF i = 1 THEN c ELSE CloseAt(t, k + 1)
        IN  << now - t.age - 60 * k,
               o,
               IF o >= c THEN o ELSE c,
               IF o >= c THEN c ELSE o,
               c,
               IF k <= 4 THEN t.vol ELSE 10 >>]

\* fetch_ohlcv_safe: any exception, and an empty answer, give []
fetch_ohlcv_safe(t, now) ==
    IF t.fetch = "error" THEN <<>> ELSE Candles(t, now)

\* too_old(candles): age_min > max_age_min, with ages kept in seconds
too_old(candles, now) ==
    IF candles = <<>> THEN TRUE
    ELSE now - candles[Len(candles)][1] > MAX_AGE_MIN * 60

\* ---------------------------------------------------------------- scanner
\* the ticker's price, or the last close when fetch_ticker raises
LastClose(t, closes) ==
    IF t.tick # 0 THEN t.tick ELSE FromEnd(closes, 1)

\* variant: the length test is forgotten
Unusable_NoLen(ohlcv, now) == too_old(ohlcv, now)

\* scan: "if too_old(ohlcv) or len(ohlcv) < 60: continue"
Unusable(ohlcv, now) == too_old(ohlcv, now) \/ Len(ohlcv) < MIN_CANDLES

\* scan: "if last_close < MIN_PRICE or last_close > MAX_PRICE: continue"
PriceOut(last_close) == last_close < MIN_PRICE \/ last_close > MAX_PRICE

\* last_n(n) inside scan
last_n(closes, n) ==
    IF Len(closes) < n + 1 THEN NaN
    ELSE pct(FromEnd(closes, 1), FromEnd(closes, n + 1))

\* volx = vol_5m / (vol_med * 5.0), vol_med = max(1e-9, median(vols)); a zero
\* median leaves the 1e-9 floor, under which any traded volume exceeds every bound
VolxOf(vols) ==
    LET vol_5m == SumSeq(LastK(vols, 5))
        med2   == median2(vols)
    IN  IF med2 = 0
        THEN (IF vol_5m = 0 THEN 0 ELSE 1000000)
        ELSE (vol_5m * 2000) \div (med2 * 5)

\* dist_local: 100.0 when the local high is not positive
DistLocal(highs, last_close) ==
    LET px_local_high == IF highs = <<>> THEN 0 ELSE MaxOf(Range(highs))
    IN  IF px_local_high > 0
        THEN ((px_local_high - last_close) * 100000) \div px_local_high
        ELSE 100000

\* lookback = min(BOTTOM_LOOKBACK_MIN, len(closes)-1)
Lookback(closes) ==
    IF BOTTOM_LOOKBACK_MIN <= Len(closes) - 1 THEN BOTTOM_LOOKBACK_MIN ELSE Len(closes) - 1

\* loc_low = min(window) if window else 0.0
LocLow(closes) ==
    LET window == LastK(closes, Lookback(closes))
    IN  IF window = <<>> THEN 0 ELSE MinOf(Range(window))

\* dist_low: 0.0 when the local low is not positive
DistLow(closes, last_close) ==
    LET loc_low == LocLow(closes)
    IN  IF loc_low > 0
        THEN ((last_close - loc_low) * 100000) \div loc_low
        ELSE 0

\* the indicators scan computes for one usable series
Indicators(t, ohlcv) ==
  The({
    [last_close |-> last_close,
         p1         |-> IF Len(closes) >= 2
                        THEN pct(FromEnd(closes, 1), FromEnd(closes, 2)) ELSE NaN,
         p5         |-> last_n(closes, 5),
         p15        |-> last_n(closes, 15),
         volx       |-> VolxOf(vols),
         dist_local |-> dist_local,
         near_local |-> 100000 - dist_local,
         lookback   |-> Lookback(closes),
         loc_low    |-> LocLow(closes),
         dist_low   |-> DistLow(closes, last_close),
         green3     |-> last_n_green_ratio(ohlcv, 3),
         strict3    |-> is_strict_up(closes, 3)]
    : closes \in {[i \in DOMAIN ohlcv |-> ohlcv[i][5]]},
      highs \in {[i \in DOMAIN ohlcv |-> ohlcv[i][3]]},
      vols \in {[i \in DOMAIN ohlcv |-> ohlcv[i][6]]},
      last_close \in {LastClose(t, [i \in DOMAIN ohlcv |-> ohlcv[i][5]])},
      dist_local \in {DistLocal([i \in DOMAIN ohlcv |-> ohlcv[i][3]],
                                LastClose(t, [i \in DOMAIN ohlcv |-> ohlcv[i][5]]))} })

\* -------- Bottoming --------
IsBottom(x) ==
    /\ BOTTOM_TOP > 0
    /\ x.lookback >= 30
    /\ Le(x.dist_low, BOTTOM_NEAR_LOW_PCT_MAX)
    /\ SelfEq(x.p1) /\ Ge(x.p1, BOTTOM_UP1M_MIN)
    /\ SelfEq(x.p5) /\ Le(BOTTOM_5M_MIN, x.p5) /\ Le(x.p5, BOTTOM_5M_MAX)
    /\ Ge(x.volx, BOTTOM_VOL_X_MIN)
    /\ Ge(x.green3, GREEN_MIN)

\* -------- Early Watchlist --------
IsEarly(x) ==
    /\ Le(x.dist_local, EARLY_NEAR_LOCAL_PCT_MAX)
    /\ SelfEq(x.p5) /\ Le(EARLY_5M_MIN, x.p5) /\ Le(x.p5, EARLY_5M_MAX)
    /\ SelfEq(x.p15) /\ Le(x.p15, EARLY_15M_MAX)
    /\ Ge(x.volx, EARLY_VOL_X_MIN)
    /\ Ge(x.green3, GREEN_MIN)
    /\ x.strict3

\* -------- Clean Risers (final) --------
IsFinal(x) ==
    /\ SelfEq(x.p5) /\ Ge(x.p5, MIN_5M_PCT)
    /\ SelfEq(x.p15) /\ Ge(x.p15, MIN_15M_PCT)
    /\ Ge(x.volx, VOL_SURGE_X)
    /\ Le(x.dist_local, NEAR_HIGH_PCT)
    /\ Ge(x.green3, GREEN_MIN)
    /\ x.strict3

\* round(p, 2) if p == p else None
RoundOrNone(p) == IF SelfEq(p) THEN Round2(p) ELSE None

\* the dict appended to bottoms / early / finals
Row(sym, x) ==
    [Symbol |-> sym, Price |-> x.last_close,
     p1 |-> RoundOrNone(x.p1), p5 |-> RoundOrNone(x.p5), p15 |-> RoundOrNone(x.p15),
     NearHigh |-> Round2(x.near_local), Vol5m_x |-> Round2(x.volx)]

\* r.get(k) or 0
OrZero(v) == IF v = None THEN 0 ELSE v

\* sort key of bottoms
BottomKey(r) == << OrZero(r.p5), OrZero(r.Vol5m_x), -OrZero(r.NearHigh) >>

\* sort key of early and finals
RankKey(r) == << OrZero(r.p15), OrZero(r.p5), OrZero(r.Vol5m_x) >>

\* tuple comparison a > b
TupleGt(a, b) ==
    \/ a[1] > b[1]
    \/ a[1] = b[1] /\ a[2] > b[2]
    \/ a[1] = b[1] /\ a[2] = b[2] /\ a[3] > b[3]

\* variant: the ascending sort reversed afterwards, which turns ties around
SortedPos_Rev(keys, i) ==
    1 + Cardinality({j \in DOMAIN keys : TupleGt(keys[j], keys[i])})
      + Cardinality({j \in DOMAIN keys : j > i /\ keys[j] = keys[i]})

\* where sorted(..., reverse=True) puts rows[i]: after every row with a greater
\* key and after the earlier rows with an equal key (the sort is stable)
SortedPos(keys, i) ==
    1 + Cardinality({j \in DOMAIN keys : TupleGt(keys[j], keys[i])})
      + Cardinality({j \in DOMAIN keys : j < i /\ keys[j] = keys[i]})

\* sorted(rows, key=..., reverse=True), keys[i] being the key of rows[i]
SortedDesc(rows, keys) ==
  The({
    [p \in DOMAIN r |-> r[CHOOSE i \in DOMAIN r : pos[i] = p]]
    : r \in {rows}, pos \in {[i \in DOMAIN keys |-> SortedPos(keys, i)]} })

\* variant: the slice is forgotten
FirstK_All(rows, k) == rows

\* rows[:k]
FirstK(rows, k) == IF Len(rows) <= k THEN rows ELSE SubSeq(rows, 1, k)

\* what the loop over symbols does with one symbol
Outcome(sym, x) ==
    IF PriceOut(x.last_close)
    THEN [skip |-> TRUE]
    ELSE [skip |-> FALSE, bottom |-> IsBottom(x), early |-> IsEarly(x),
          final |-> IsFinal(x), row |-> Row(sym, x)]

Analyze(sym, t, now) ==
  The({
    IF Unusable(ohlcv, now)
    THEN [skip |-> TRUE]
    ELSE The({Outcome(sym, x) : x \in {Indicators(t, ohlcv)}})
    : ohlcv \in {fetch_ohlcv_safe(t, now)} })

\* the rows of one tier, in the order of the symbol loop
Collect(symbols, res, tier) ==
    LET hit(s) == /\ ~res[s].skip
                  /\ CASE tier = "bottom" -> res[s].bottom
                       [] tier = "early"  -> res[s].early
                       [] OTHER           -> res[s].final
        picked == SelectSeq(symbols, hit)
    IN  [i \in DOMAIN picked |-> res[picked[i]].row]

\* scan(): the three ranked lists
\* the keys of rows under the bottoms key / the early and finals key
BottomKeys(rows) == The({[i \in DOMAIN r |-> BottomKey(r[i])] : r \in {rows}})
RankKeys(rows) == The({[i \in DOMAIN r |-> RankKey(r[i])] : r \in {rows}})

\* "# Sorts": the three lists sorted, bottoms and early cut to their top
Sorts(b, e, f) ==
    [bottoms |-> IF BOTTOM_TOP > 0
                 THEN FirstK(SortedDesc(b, BottomKeys(b)), BOTTOM_TOP)
                 ELSE b,
     early   |-> FirstK(SortedDesc(e, RankKeys(e)), EARLY_TOP),
     finals  |-> SortedDesc(f, RankKeys(f))]

\* the per-symbol results of the loop over symbols
Analysis(symbols, feed, now) == [s \in Range(symbols) |-> Analyze(s, feed[s], now)]

scan(symbols, feed, now) ==
  The({
    The({Sorts(b, e, f) : b \in {Collect(symbols, res, "bottom")},
                          e \in {Collect(symbols, res, "early")},
                          f \in {Collect(symbols, res, "final")}})
    : res \in {Analysis(symbols, feed, now)} })

\* ---------------------------------------------------------------- bounds
\* symbols and reruns followed by Spec
NumSyms == 2
MaxRuns == 2
\* symbols scanned by SpecScan
ScanSyms == 3
\* symbols and reruns followed by SpecTop (more symbols than EARLY_TOP)
TopSyms == 16
TopRuns == 1

\* ---------------------------------------------------------------- state
VARIABLES
    market,          \* symbol -> the shapes its series can take (the exchange)
    left,            \* reruns still followed
    clock,           \* time.time(), seconds
    feed,            \* symbol -> the shape the exchange serves in this run
    button,          \* st.button(...): this run was started by a click
    pc,              \* position in the script: "scan", "auto", "button", "sleep"
    bottoms, early, finals,   \* scan()'s result in this run
    unseen_e,        \* unseen_e of this run
    seen_early,      \* st.session_state["seen_early"]
    last_report_ts,  \* st.session_state["last_report_ts"]
    autoCall,        \* the send_report call of the automatic block in this run
    manualCall,      \* the send_report call of the button in this run
    autoLog,         \* history: the times of all automatic send_report calls
    everUnseen,      \* history: symbols that were unseen in a finished cycle
    everListed,      \* history: symbols that were on some run's early list
    dropped,         \* history: seen symbols that were off a later early list
    everCut          \* history: symbols that met the Early rules but were cut off

vars == << market, left, clock, feed, button, pc, bottoms, early, finals, unseen_e,
           seen_early, last_report_ts, autoCall, manualCall, autoLog, everUnseen,
           everListed, dropped, everCut >>

\* the provider's symbols, in the order load_markets returns them
Symbols == [i \in DOMAIN market |-> i]

\* every assignment of one shape of its market to each of the first n symbols
RECURSIVE FeedsUpTo(_, _)
FeedsUpTo(m, n) ==
    IF n = 0 THEN {<< >>}
    ELSE {Append(f, t) : f \in FeedsUpTo(m, n - 1), t \in m[n]}

Feeds(m) == FeedsUpTo(m, Len(m))

\* seconds between the starts of two consecutive runs
Deltas == {REFRESH_SEC, COOLDOWN_MIN * 60 - REFRESH_SEC}

\* what can happen inside send_report
Outcomes == {"nosecrets", "sent", "failed"}

NoCall == [called |-> FALSE]

\* send_report(bottom_rows, early_rows, final_rows, subject_suffix): "nosecrets"
\* returns before anything is built, "failed" ends in st.warning, "sent" in st.toast
send_report(bottom_rows, early_rows, final_rows, subject_suffix, outcome) ==
    [called |-> TRUE, bottoms |-> bottom_rows, early |-> early_rows,
     finals |-> final_rows, suffix |-> subject_suffix, outcome |-> outcome]

\* curr_e_syms
SymsOf(rows) == [i \in DOMAIN rows |-> rows[i].Symbol]

\* variant: the seen set is not consulted
Unseen_All(early_rows, seen) == SymsOf(early_rows)

\* unseen_e = [s for s in curr_e_syms if s not in seen_early], [] for an empty list
Unseen(early_rows, seen) ==
    IF early_rows # << >>
    THEN LET new(s) == s \notin seen IN SelectSeq(SymsOf(early_rows), new)
    ELSE << >>

\* variant: strict comparison
CooldownOver_Strict(now_ts, last) == now_ts - last > COOLDOWN_MIN * 60

\* now_ts - last_report_ts >= COOLDOWN_MIN * 60
CooldownOver(now_ts, last) == now_ts - last >= COOLDOWN_MIN * 60

\* session state as the first run creates it
InitSession ==
    /\ seen_early = {}
    /\ last_report_ts = 0

InitRun(m, runs) ==
    /\ market = m
    /\ left = runs
    /\ clock = 1793000000
    /\ feed \in Feeds(m)
    /\ button = FALSE
    /\ pc = "scan"
    /\ bottoms = << >> /\ early = << >> /\ finals = << >>
    /\ unseen_e = << >>
    /\ InitSession
    /\ autoCall = NoCall /\ manualCall = NoCall
    /\ autoLog = {} /\ everUnseen = {} /\ everListed = {}
    /\ dropped = {} /\ everCut = {}

\* the shapes Spec draws from
NotifyShapes == {T_Flat, T_EarlyA, T_Final}

Init == InitRun([s \in 1..NumSyms |-> NotifyShapes], MaxRuns)

\* SpecScan follows one scan() over every assignment of shapes
InitScan == InitRun([s \in 1..ScanSyms |-> Shapes], 0)

\* the first EARLY_TOP - 1 symbols rank high when they qualify; the others rank low
InitTop ==
    InitRun([s \in 1..TopSyms |->
                IF s < EARLY_TOP THEN {T_EarlyB} ELSE {T_EarlyA, T_Flat}], TopRuns)

\* the symbols whose series meets the Early rules in this run
EarlyHits(symbols, f, now) ==
    {s \in Range(symbols) : The({~a.skip /\ a.early : a \in {Analyze(s, f[s], now)}})}

\* ---------------------------------------------------------------- the script
\* scan() and the three tables, up to the computation of unseen_e
Scan ==
    /\ pc = "scan"
    /\ \E r \in {scan(Symbols, feed, clock)} :
           /\ bottoms' = r.bottoms
           /\ early' = r.early
           /\ finals' = r.finals
           /\ unseen_e' = Unseen(r.early, seen_early)
           /\ everListed' = everListed \cup Range(SymsOf(r.early))
           /\ dropped' = dropped \cup (seen_early \ Range(SymsOf(r.early)))
           /\ everCut' = everCut \cup (EarlyHits(Symbols, feed, clock) \ Range(SymsOf(r.early)))
    /\ pc' = "auto"
    /\ UNCHANGED << market, left, clock, feed, button, seen_early, last_report_ts,
                    autoCall, manualCall, autoLog, everUnseen >>

\* variant: seen_early is updated only when the report goes out
AutoReport_SeenOnSend ==
    /\ pc = "auto"
    /\ IF unseen_e # << >>
       THEN IF CooldownOver(clock, last_report_ts)
            THEN /\ \E o \in Outcomes :
                      autoCall' = send_report(bottoms, early, finals,
                                              "New Early Candidates", o)
                 /\ last_report_ts' = clock
                 /\ autoLog' = autoLog \cup {clock}
                 /\ seen_early' = seen_early \cup Range(unseen_e)
            ELSE UNCHANGED << autoCall, last_report_ts, autoLog, seen_early >>
       ELSE UNCHANGED << autoCall, last_report_ts, autoLog, seen_early >>
    /\ everUnseen' = everUnseen \cup (Range(SymsOf(early)) \ seen_early)
    /\ pc' = "button"
    /\ UNCHANGED << market, left, clock, feed, button, bottoms, early, finals,
                    unseen_e, manualCall, everListed, dropped, everCut >>

\* variant: the timestamp is taken in every cycle whose cooldown is over
AutoReport_StampAlways ==
    /\ pc = "auto"
    /\ IF CooldownOver(clock, last_report_ts)
       THEN /\ IF unseen_e # << >>
               THEN /\ \E o \in Outcomes :
                         autoCall' = send_report(bottoms, early, finals,
                                                 "New Early Candidates", o)
                    /\ autoLog' = autoLog \cup {clock}
               ELSE UNCHANGED << autoCall, autoLog >>
            /\ last_report_ts' = clock
       ELSE UNCHANGED << autoCall, last_report_ts, autoLog >>
    /\ seen_early' = seen_early \cup Range(unseen_e)
    /\ everUnseen' = everUnseen \cup (Range(SymsOf(early)) \ seen_early)
    /\ pc' = "button"
    /\ UNCHANGED << market, left, clock, feed, button, bottoms, early, finals,
                    unseen_e, manualCall, everListed, dropped, everCut >>

\* "Send full report when NEW Early names appear (with cooldown)"
AutoReport ==
    /\ pc = "auto"
    /\ IF unseen_e # << >>
       THEN /\ IF CooldownOver(clock, last_report_ts)
               THEN /\ \E o \in Outcomes :
                         autoCall' = send_report(bottoms, early, finals,
                                                 "New Early Candidates", o)
                    /\ last_report_ts' = clock
                    /\ autoLog' = autoLog \cup {clock}
               ELSE UNCHANGED << autoCall, last_report_ts, autoLog >>
            /\ seen_early' = seen_early \cup Range(unseen_e)
       ELSE UNCHANGED << autoCall, last_report_ts, autoLog, seen_early >>
    /\ everUnseen' = everUnseen \cup (Range(SymsOf(early)) \ seen_early)
    /\ pc' = "button"
    /\ UNCHANGED << market, left, clock, feed, button, bottoms, early, finals,
                    unseen_e, manualCall, everListed, dropped, everCut >>

\* variant: the manual report takes the cooldown timestamp
ManualReport_Stamps ==
    /\ pc = "button"
    /\ button
    /\ \E o \in Outcomes :
          manualCall' = send_report(bottoms, early, finals, "Manual Test", o)
    /\ last_report_ts' = clock
    /\ pc' = "sleep"
    /\ UNCHANGED << market, left, clock, feed, button, bottoms, early, finals,
                    unseen_e, seen_early, autoCall, autoLog,
                    everUnseen, everListed, dropped, everCut >>

\* "Manual test report": the button was clicked
ManualReport ==
    /\ pc = "button"
    /\ button
    /\ \E o \in Outcomes :
          manualCall' = send_report(bottoms, early, finals, "Manual Test", o)
    /\ pc' = "sleep"
    /\ UNCHANGED << market, left, clock, feed, button, bottoms, early, finals,
                    unseen_e, seen_early, last_report_ts, autoCall, autoLog,
                    everUnseen, everListed, dropped, everCut >>

\* the button was not clicked
NoManual ==
    /\ pc = "button"
    /\ ~button
    /\ pc' = "sleep"
    /\ UNCHANGED << market, left, clock, feed, button, bottoms, early, finals,
                    unseen_e, seen_early, last_report_ts, autoCall, manualCall,
                    autoLog, everUnseen, everListed, dropped, everCut >>

\* time.sleep(REFRESH_SEC); st.rerun(), or a click on the button: the script starts
\* again with fresh locals, the session state is kept
Rerun ==
    /\ pc = "sleep"
    /\ left > 0
    /\ left' = left - 1
    /\ \E d \in Deltas : clock' = clock + d
    /\ feed' \in Feeds(market)
    /\ button' \in BOOLEAN
    /\ pc' = "scan"
    /\ bottoms' = << >> /\ early' = << >> /\ finals' = << >>
    /\ unseen_e' = << >>
    /\ autoCall' = NoCall /\ manualCall' = NoCall
    /\ UNCHANGED << market, seen_early, last_report_ts, autoLog, everUnseen, everListed,
                    dropped, everCut >>

Next == Scan \/ AutoReport \/ ManualReport \/ NoManual \/ Rerun

Spec == Init /\ [][Next]_vars

SpecScan == InitScan /\ [][Scan]_vars

SpecTop == InitTop /\ [][Next]_vars

\* ---------------------------------------------------------------- properties
\* the symbols on this run's ranked Early list
Listed == {early[i].Symbol : i \in DOMAIN early}

\* unseen = rankedEarlySymbols \ seenSymbols
UnseenNow == Listed \ seen_early

\* the cooldown, in seconds
CooldownSecs == 10 * 60

\* C1: the automatic block calls the Notifier exactly when unseen is non-empty
\* and now - lastNotificationTime >= cooldown; any two automatic calls are at
\* least one cooldown apart.
C1_AutoReportIff ==
    [][ /\ pc = "auto" =>
            (autoCall'.called <=>
                (UnseenNow # {} /\ clock - last_report_ts >= CooldownSecs))
        /\ \A t \in autoLog' \ autoLog : \A u \in autoLog : t - u >= CooldownSecs
      ]_vars

\* a cycle with unseen symbols whose report the cooldown suppressed, after an
\* earlier automatic report
C1_Witness ==
    /\ pc = "button"
    /\ unseen_e # << >>
    /\ ~autoCall.called
    /\ autoLog # {}

\* C2: when the delivery of the automatic report fails, seenSymbols and
\* lastNotificationTime keep the values they had before the cycle.
C2_FailureKeepsState ==
    [][ (pc = "auto" /\ autoCall'.called /\ autoCall'.outcome = "failed")
            => (seen_early' = seen_early /\ last_report_ts' = last_report_ts) ]_vars

\* C3: after the automatic block seenSymbols is its old value united with the
\* cycle's unseen symbols, sent or suppressed; no step removes a member.
C3_SeenGrows ==
    [][ /\ pc = "auto" => seen_early' = seen_early \cup UnseenNow
        /\ seen_early \subseteq seen_early' ]_vars

\* a suppressed cycle that nevertheless recorded its unseen symbols
C3_Witness ==
    /\ pc = "button"
    /\ unseen_e # << >>
    /\ ~autoCall.called
    /\ Range(unseen_e) \subseteq seen_early
    /\ Cardinality(seen_early) >= 2

\* C4: a click always calls the Notifier with this run's three lists, whatever
\* unseen and the cooldown are, and that step leaves seenSymbols and
\* lastNotificationTime alone.
C4_ManualReport ==
    [][ pc = "button" =>
          /\ seen_early' = seen_early
          /\ last_report_ts' = last_report_ts
          /\ button => /\ manualCall'.called
                       /\ manualCall'.bottoms = bottoms
                       /\ manualCall'.early = early
                       /\ manualCall'.finals = finals ]_vars

\* a manual report in a run with nothing unseen and the cooldown still running
C4_Witness ==
    /\ pc = "sleep"
    /\ manualCall.called
    /\ ~autoCall.called
    /\ UnseenNow = {}
    /\ last_report_ts # 0
    /\ clock - last_report_ts < CooldownSecs

\* C5: a symbol is unseen in at most one cycle; a list made only of symbols that
\* were unseen before never makes the automatic block call the Notifier.
C5_UnseenOnce ==
    [][ pc = "auto" =>
          /\ UnseenNow \cap everUnseen = {}
          /\ (Listed \subseteq everUnseen => ~autoCall'.called) ]_vars

\* a seen symbol that left the Early list is on it again, the cooldown being over
C5_Witness ==
    /\ pc = "button"
    /\ Listed \cap dropped # {}
    /\ UnseenNow = {}
    /\ clock - last_report_ts >= CooldownSecs
    /\ ~autoCall.called

\* C6: with unseen empty the automatic block makes no call and changes neither
\* variable; lastNotificationTime changes only in a step that makes the call.
C6_EmptyUnseen ==
    [][ /\ (pc = "auto" /\ UnseenNow = {}) =>
            /\ ~autoCall'.called
            /\ seen_early' = seen_early
            /\ last_report_ts' = last_report_ts
        /\ last_report_ts' # last_report_ts => (pc = "auto" /\ autoCall'.called)
      ]_vars

\* a non-empty Early list whose symbols are all seen, the cooldown being over
C6_Witness ==
    /\ pc = "button"
    /\ early # << >>
    /\ unseen_e = << >>
    /\ clock - last_report_ts >= CooldownSecs
    /\ ~autoCall.called

\* the series the claim excludes: failed or empty fetch, fewer than 60 candles,
\* last candle older than 6 minutes
Excluded(t) == t.fetch = "error" \/ t.n = 0 \/ t.n < 60 \/ t.age > 6 * 60

\* the symbols on any of the three lists
OnAnyList ==
    {bottoms[i].Symbol : i \in DOMAIN bottoms} \cup Listed
        \cup {finals[i].Symbol : i \in DOMAIN finals}

\* C7: an excluded symbol is on no list, and the scan returns what it returns
\* for the remaining symbols alone.
C7_SkippedSymbols ==
    pc = "auto" =>
        /\ \A s \in DOMAIN feed : Excluded(feed[s]) => s \notin OnAnyList
        /\ LET kept(s) == ~Excluded(feed[s])
           IN  \E r \in {scan(SelectSeq(Symbols, kept), feed, clock)} :
                  r.bottoms = bottoms /\ r.early = early /\ r.finals = finals

\* an excluded symbol is followed by a symbol that made the Early list
C7_Witness ==
    /\ pc = "auto"
    /\ \E s \in DOMAIN feed, u \in Listed : Excluded(feed[s]) /\ s < u

\* a percentage over n bars is valid: enough history and a non-zero divisor
PctValid(t, n) == t.n >= n + 1 /\ CloseAt(t, n) # 0

\* the local low of the lookback window is a usable divisor
LowDefined(t) ==
    \A k \in 0..((IF t.n - 1 < 90 THEN t.n - 1 ELSE 90) - 1) : CloseAt(t, k) > 0

\* the local high is a usable divisor
HighDefined(t) == \E k \in 0..(t.n - 1) : CloseAt(t, k) > 0

\* C8: a symbol on a tier's list has valid values for every indicator the
\* tier's rules refer to.
C8_InvalidExcluded ==
    pc = "auto" =>
        /\ \A i \in DOMAIN bottoms :
              LET t == feed[bottoms[i].Symbol]
              IN  PctValid(t, 1) /\ PctValid(t, 5) /\ LowDefined(t)
        /\ \A i \in DOMAIN early :
              LET t == feed[early[i].Symbol]
              IN  PctValid(t, 5) /\ PctValid(t, 15) /\ HighDefined(t)
        /\ \A i \in DOMAIN finals :
              LET t == feed[finals[i].Symbol]
              IN  PctValid(t, 5) /\ PctValid(t, 15) /\ HighDefined(t)

\* an invalid value counts as 0 for ordering
Zero(v) == IF v = None THEN 0 ELSE v

\* (pct15m, pct5m, volumeSurgeRatio) as the row shows them
ClaimKey(r) == << Zero(r.p15), Zero(r.p5), Zero(r.Vol5m_x) >>

\* (pct5m, volumeSurgeRatio, -nearHigh) as the row shows them
BottomClaimKey(r) == << Zero(r.p5), Zero(r.Vol5m_x), 0 - Zero(r.NearHigh) >>

LexGt(a, b) ==
    \E k \in 1..3 : a[k] > b[k] /\ \A j \in 1..(k - 1) : a[j] = b[j]

\* rows descend by key K; equal keys keep the provider's symbol order
OrderedBy(rows, K(_)) ==
    \A i, j \in DOMAIN rows :
        i < j => \/ LexGt(K(rows[i]), K(rows[j]))
                 \/ K(rows[i]) = K(rows[j]) /\ rows[i].Symbol < rows[j].Symbol

\* C9 as stated: all three lists descend by (pct15m, pct5m, volumeSurgeRatio),
\* ties in provider order.
C9_AllByRankKey ==
    pc = "auto" =>
        /\ OrderedBy(bottoms, ClaimKey)
        /\ OrderedBy(early, ClaimKey)
        /\ OrderedBy(finals, ClaimKey)

\* C9 amended: Early and Final descend by (pct15m, pct5m, volumeSurgeRatio),
\* Bottoming by (pct5m, volumeSurgeRatio, -nearHigh), on the rounded row values
\* with an invalid value counted as 0; ties keep the provider's order.
C9_RankedLists ==
    pc = "auto" =>
        /\ OrderedBy(bottoms, BottomClaimKey)
        /\ OrderedBy(early, ClaimKey)
        /\ OrderedBy(finals, ClaimKey)

\* two Early rows tie, and two Bottoming rows stand against the (pct15m, ...) order
C9_Witness ==
    /\ pc = "auto"
    /\ \E i, j \in DOMAIN early : i < j /\ ClaimKey(early[i]) = ClaimKey(early[j])
    /\ \E i, j \in DOMAIN bottoms :
          i < j /\ LexGt(ClaimKey(bottoms[j]), ClaimKey(bottoms[i]))

\* C10: seenSymbols holds only symbols that were on some run's Early list, a
\* list of at most EARLY_TOP rows; a symbol that meets the Early rules but is
\* cut off is not added, and a listed symbol not yet seen is unseen.
C10_SeenFromTruncated ==
    [][ /\ Len(early') <= 15
        /\ seen_early' \subseteq everListed'
        /\ pc = "auto" =>
              /\ \A s \in EarlyHits(Symbols, feed, clock) \ (Listed \cup seen_early) :
                    s \notin seen_early'
              /\ UnseenNow \subseteq Range(unseen_e)
      ]_vars

\* a symbol that was cut off in an earlier run is listed now, counted as unseen
\* and recorded
C10_Witness ==
    /\ pc = "button"
    /\ everCut \cap Range(unseen_e) # {}
    /\ everCut \cap Range(unseen_e) \subseteq seen_early

====
